---- MODULE Spec2Model ----
(***************************************************************************)
(* Model of Main.py: five sorting strategies written as Python generators  *)
(* that yield the list they sort, the timing decorator around them, the    *)
(* AlgorithmContext, and the AlgorithmAnalyzer GUI whose Start button runs  *)
(* run_sort on a new thread.  The Tk widgets are outside the model: the    *)
(* text of the Combobox is an input of start_sort, and a draw_data call is *)
(* recorded by the values it was given.                                    *)
(*                                                                         *)
(* Python lists are objects: a list is an id into `heap`, and every        *)
(* variable that holds a list holds its id.  `yield data` hands out the id *)
(* of the list being sorted, not a copy of it.                             *)
(***************************************************************************)
EXTENDS Integers, Sequences, FiniteSets, TLC

(* ------------------------------ bounds -------------------------------- *)
\* stands for the 30 of generate_data
DataLen == 2
\* stands for randint(10, 100): values are 1..MaxVal
MaxVal == 2
\* number of threads the Start button may create in one behaviour
MaxRuns == 2
\* longest list handed to execute by a direct caller of AlgorithmContext
ApiMaxLen == 3
\* values of those lists are 1..ApiMaxVal
ApiMaxVal == 3

Runs == 1..MaxRuns
NoList == 0
NoGen == [st |-> "none"]

Algos == {"Bubble Sort", "Insertion Sort", "Merge Sort", "Quick Sort", "Selection Sort"}
\* the Combobox is editable: any other text is one more possible value
MenuTexts == Algos \cup {"Other"}
\* the values generate_data draws from, and the lists a direct caller passes
Values == 1..MaxVal
\* one longer list, on which every variant has several passes to make
LongList == <<5, 3, 4, 1, 2>>
ApiLists == UNION {[1..k -> 1..ApiMaxVal] : k \in 0..ApiMaxLen} \cup {LongList}

(* ----------------------------- Python lists --------------------------- *)
\* data[k] for a Python index k: 0-based, a negative k counts from the end
InRange(L, k) == k >= -Len(L) /\ k < Len(L)
Pos(L, k) == IF k >= 0 THEN k + 1 ELSE Len(L) + k + 1
Get(L, k) == L[Pos(L, k)]
\* data.insert(k, v) in place of data[k] = v: the list grows by one
SetInserts(L, k, v) ==
  SubSeq(L, 1, Pos(L, k) - 1) \o <<v>> \o SubSeq(L, Pos(L, k), Len(L))
Set(L, k, v) == [L EXCEPT ![Pos(L, k)] = v]
\* a swap written as two assignments without a temporary: data[a] is lost
SwapLosesValue(L, a, b) == [L EXCEPT ![Pos(L, a)] = L[Pos(L, b)]]
\* data[a], data[b] = data[b], data[a]
Swap(L, a, b) == [L EXCEPT ![Pos(L, a)] = L[Pos(L, b)], ![Pos(L, b)] = L[Pos(L, a)]]
\* a slice that takes its upper bound as inclusive: one element too many
SliceInclusive(L, a, b) ==
  LET hi == IF b + 1 > Len(L) THEN Len(L) ELSE b + 1
  IN  IF a >= hi THEN <<>> ELSE SubSeq(L, a + 1, hi)
\* data[a:b] for 0 <= a
Slice(L, a, b) ==
  LET hi == IF b > Len(L) THEN Len(L) ELSE b
  IN  IF a >= hi THEN <<>> ELSE SubSeq(L, a + 1, hi)

(* ------------------------------ generators ---------------------------- *)
\* One activation of a generator function (or of _partition's caller): its
\* position and its locals.  Fields a frame does not use stay 0 / <<>>.
Frame(fn, lo, mid, hi) ==
  [fn |-> fn, pc |-> "start", lo |-> lo, mid |-> mid, hi |-> hi,
   n |-> 0, i |-> 0, j |-> 0, key |-> 0, min_idx |-> 0,
   l |-> 0, r |-> 0, left_copy |-> <<>>, right_copy |-> <<>>]

SortFn(algo) ==
  CASE algo = "Bubble Sort"    -> "BubbleSort.sort"
    [] algo = "Insertion Sort" -> "InsertionSort.sort"
    [] algo = "Merge Sort"     -> "MergeSort.sort"
    [] algo = "Quick Sort"     -> "QuickSort.sort"
    [] algo = "Selection Sort" -> "SelectionSort.sort"

\* Calling a generator function runs none of its body: the generator object
\* holds the argument and a frame at the function's first line.
NewGen(algo, ref) ==
  [st |-> "created", alg |-> algo, data |-> ref, stack |-> <<Frame(SortFn(algo), 0, 0, 0)>>,
   wrapped |-> FALSE]

Top(g) == g.stack[Len(g.stack)]
WithTop(g, f) == [g EXCEPT !.stack = [g.stack EXCEPT ![Len(g.stack)] = f]]
Push(g, f) == [g EXCEPT !.stack = Append(g.stack, f)]
Pop(g) == [g EXCEPT !.stack = SubSeq(g.stack, 1, Len(g.stack) - 1)]

\* result of one step of a generator body: the generator, the list it
\* sorts, and what the step did ("run", "yield", "raise")
Res(g, L, ev) == [g |-> g, L |-> L, ev |-> ev]

\* The subscripts A[k], k in S, evaluated by a step on the list L whose
\* outcome is res (A is L or one of _merge's copies):
\* IndexError when some k is outside -len(A)..len(A)-1; otherwise the step
\* goes on, and the generator's history field `wrapped` notes a k below 0,
\* which Python takes from the end of the list without complaint.
Access(g, L, A, S, res) ==
  IF \E k \in S : ~InRange(A, k) THEN Res(g, L, "raise")
  ELSE [res EXCEPT !.g.wrapped = @ \/ \E k \in S : k < 0]

\* an inner loop over range(0, n - i): one comparison too many per pass
BubbleStepOffByOne(g, L) ==
  LET f == Top(g) IN
  CASE f.pc = "start" -> Res(WithTop(g, [f EXCEPT !.n = Len(L), !.i = 0, !.pc = "outer"]), L, "run")
    [] f.pc = "outer" ->
         IF f.i < f.n THEN Res(WithTop(g, [f EXCEPT !.j = 0, !.pc = "inner"]), L, "run")
         ELSE Res(Pop(g), L, "run")
    [] f.pc = "inner" ->
         IF f.j < f.n - f.i
         THEN Access(g, L, L, {f.j, f.j + 1},
              IF Get(L, f.j) > Get(L, f.j + 1)
              THEN Res(WithTop(g, [f EXCEPT !.j = f.j + 1]), Swap(L, f.j, f.j + 1), "yield")
              ELSE Res(WithTop(g, [f EXCEPT !.j = f.j + 1]), L, "run"))
         ELSE Res(WithTop(g, [f EXCEPT !.i = f.i + 1, !.pc = "outer"]), L, "run")

\* `yield data` one level out: after every comparison, swapped or not
BubbleStepYieldsAlways(g, L) ==
  LET f == Top(g) IN
  CASE f.pc = "start" -> Res(WithTop(g, [f EXCEPT !.n = Len(L), !.i = 0, !.pc = "outer"]), L, "run")
    [] f.pc = "outer" ->
         IF f.i < f.n THEN Res(WithTop(g, [f EXCEPT !.j = 0, !.pc = "inner"]), L, "run")
         ELSE Res(Pop(g), L, "run")
    [] f.pc = "inner" ->
         IF f.j < f.n - f.i - 1
         THEN Access(g, L, L, {f.j, f.j + 1},
              IF Get(L, f.j) > Get(L, f.j + 1)
              THEN Res(WithTop(g, [f EXCEPT !.j = f.j + 1]), Swap(L, f.j, f.j + 1), "yield")
              ELSE Res(WithTop(g, [f EXCEPT !.j = f.j + 1]), L, "yield"))
         ELSE Res(WithTop(g, [f EXCEPT !.i = f.i + 1, !.pc = "outer"]), L, "run")

BubbleStep(g, L) ==
  LET f == Top(g) IN
  CASE f.pc = "start" -> Res(WithTop(g, [f EXCEPT !.n = Len(L), !.i = 0, !.pc = "outer"]), L, "run")
    [] f.pc = "outer" ->
         IF f.i < f.n THEN Res(WithTop(g, [f EXCEPT !.j = 0, !.pc = "inner"]), L, "run")
         ELSE Res(Pop(g), L, "run")
    [] f.pc = "inner" ->
         IF f.j < f.n - f.i - 1
         THEN Access(g, L, L, {f.j, f.j + 1},
              IF Get(L, f.j) > Get(L, f.j + 1)
              THEN Res(WithTop(g, [f EXCEPT !.j = f.j + 1]), Swap(L, f.j, f.j + 1), "yield")
              ELSE Res(WithTop(g, [f EXCEPT !.j = f.j + 1]), L, "run"))
         ELSE Res(WithTop(g, [f EXCEPT !.i = f.i + 1, !.pc = "outer"]), L, "run")

\* the while loop with `key <= data[j]`: equal values are shifted too
InsertionStepNonStrict(g, L) ==
  LET f == Top(g) IN
  CASE f.pc = "start" -> Res(WithTop(g, [f EXCEPT !.n = Len(L), !.i = 1, !.pc = "outer"]), L, "run")
    [] f.pc = "outer" ->
         IF f.i < f.n
         THEN Access(g, L, L, {f.i},
                Res(WithTop(g, [f EXCEPT !.key = Get(L, f.i), !.j = f.i - 1, !.pc = "while"]), L, "run"))
         ELSE Res(Pop(g), L, "run")
    [] f.pc = "while" ->
         Access(g, L, L, IF f.j >= 0 THEN {f.j} ELSE {},
           IF f.j >= 0 /\ f.key <= Get(L, f.j)
           THEN Access(g, L, L, {f.j + 1},
                  Res(WithTop(g, [f EXCEPT !.j = f.j - 1]), Set(L, f.j + 1, Get(L, f.j)), "yield"))
           ELSE Access(g, L, L, {f.j + 1},
                  Res(WithTop(g, [f EXCEPT !.i = f.i + 1, !.pc = "outer"]), Set(L, f.j + 1, f.key), "yield")))

\* the outer loop over range(0, len(data)): the first element is placed too
InsertionStepFromZero(g, L) ==
  LET f == Top(g) IN
  CASE f.pc = "start" -> Res(WithTop(g, [f EXCEPT !.n = Len(L), !.i = 0, !.pc = "outer"]), L, "run")
    [] f.pc = "outer" ->
         IF f.i < f.n
         THEN Access(g, L, L, {f.i},
                Res(WithTop(g, [f EXCEPT !.key = Get(L, f.i), !.j = f.i - 1, !.pc = "while"]), L, "run"))
         ELSE Res(Pop(g), L, "run")
    [] f.pc = "while" ->
         Access(g, L, L, IF f.j >= 0 THEN {f.j} ELSE {},
           IF f.j >= 0 /\ f.key < Get(L, f.j)
           THEN Access(g, L, L, {f.j + 1},
                  Res(WithTop(g, [f EXCEPT !.j = f.j - 1]), Set(L, f.j + 1, Get(L, f.j)), "yield"))
           ELSE Access(g, L, L, {f.j + 1},
                  Res(WithTop(g, [f EXCEPT !.i = f.i + 1, !.pc = "outer"]), Set(L, f.j + 1, f.key), "yield")))

\* the while loop as `while key < data[j]`, without `j >= 0`
InsertionStepNoLowerGuard(g, L) ==
  LET f == Top(g) IN
  CASE f.pc = "start" -> Res(WithTop(g, [f EXCEPT !.n = Len(L), !.i = 1, !.pc = "outer"]), L, "run")
    [] f.pc = "outer" ->
         IF f.i < f.n
         THEN Access(g, L, L, {f.i},
                Res(WithTop(g, [f EXCEPT !.key = Get(L, f.i), !.j = f.i - 1, !.pc = "while"]), L, "run"))
         ELSE Res(Pop(g), L, "run")
    [] f.pc = "while" ->
         Access(g, L, L, {f.j},
           IF f.key < Get(L, f.j)
           THEN Access(g, L, L, {f.j + 1},
                  Res(WithTop(g, [f EXCEPT !.j = f.j - 1]), Set(L, f.j + 1, Get(L, f.j)), "yield"))
           ELSE Access(g, L, L, {f.j + 1},
                  Res(WithTop(g, [f EXCEPT !.i = f.i + 1, !.pc = "outer"]), Set(L, f.j + 1, f.key), "yield")))

InsertionStep(g, L) ==
  LET f == Top(g) IN
  CASE f.pc = "start" -> Res(WithTop(g, [f EXCEPT !.n = Len(L), !.i = 1, !.pc = "outer"]), L, "run")
    [] f.pc = "outer" ->
         IF f.i < f.n
         THEN Access(g, L, L, {f.i},
                Res(WithTop(g, [f EXCEPT !.key = Get(L, f.i), !.j = f.i - 1, !.pc = "while"]), L, "run"))
         ELSE Res(Pop(g), L, "run")
    [] f.pc = "while" ->
         Access(g, L, L, IF f.j >= 0 THEN {f.j} ELSE {},
           IF f.j >= 0 /\ f.key < Get(L, f.j)
           THEN Access(g, L, L, {f.j + 1},
                  Res(WithTop(g, [f EXCEPT !.j = f.j - 1]), Set(L, f.j + 1, Get(L, f.j)), "yield"))
           ELSE Access(g, L, L, {f.j + 1},
                  Res(WithTop(g, [f EXCEPT !.i = f.i + 1, !.pc = "outer"]), Set(L, f.j + 1, f.key), "yield")))

\* the swap and the yield guarded by `if min_idx != i`
SelectionStepYieldsOnChange(g, L) ==
  LET f == Top(g) IN
  CASE f.pc = "start" -> Res(WithTop(g, [f EXCEPT !.n = Len(L), !.i = 0, !.pc = "outer"]), L, "run")
    [] f.pc = "outer" ->
         IF f.i < f.n
         THEN Res(WithTop(g, [f EXCEPT !.min_idx = f.i, !.j = f.i + 1, !.pc = "inner"]), L, "run")
         ELSE Res(Pop(g), L, "run")
    [] f.pc = "inner" ->
         IF f.j < f.n
         THEN Access(g, L, L, {f.j, f.min_idx},
              IF Get(L, f.j) < Get(L, f.min_idx)
              THEN Res(WithTop(g, [f EXCEPT !.min_idx = f.j, !.j = f.j + 1]), L, "run")
              ELSE Res(WithTop(g, [f EXCEPT !.j = f.j + 1]), L, "run"))
         ELSE Access(g, L, L, {f.i, f.min_idx},
              Res(WithTop(g, [f EXCEPT !.i = f.i + 1, !.pc = "outer"]), Swap(L, f.i, f.min_idx),
                       IF f.min_idx # f.i THEN "yield" ELSE "run"))

SelectionStep(g, L) ==
  LET f == Top(g) IN
  CASE f.pc = "start" -> Res(WithTop(g, [f EXCEPT !.n = Len(L), !.i = 0, !.pc = "outer"]), L, "run")
    [] f.pc = "outer" ->
         IF f.i < f.n
         THEN Res(WithTop(g, [f EXCEPT !.min_idx = f.i, !.j = f.i + 1, !.pc = "inner"]), L, "run")
         ELSE Res(Pop(g), L, "run")
    [] f.pc = "inner" ->
         IF f.j < f.n
         THEN Access(g, L, L, {f.j, f.min_idx},
              IF Get(L, f.j) < Get(L, f.min_idx)
              THEN Res(WithTop(g, [f EXCEPT !.min_idx = f.j, !.j = f.j + 1]), L, "run")
              ELSE Res(WithTop(g, [f EXCEPT !.j = f.j + 1]), L, "run"))
         ELSE Access(g, L, L, {f.i, f.min_idx},
              Res(WithTop(g, [f EXCEPT !.i = f.i + 1, !.pc = "outer"]), Swap(L, f.i, f.min_idx), "yield"))

\* MergeSort.sort, _merge_sort and _merge; `yield from` is a pushed frame
MergeStep(g, L) ==
  LET f == Top(g) IN
  CASE f.fn = "MergeSort.sort" ->
         IF f.pc = "start"
         THEN Res(Push(WithTop(g, [f EXCEPT !.pc = "after"]), Frame("_merge_sort", 0, 0, Len(L) - 1)), L, "run")
         ELSE Res(Pop(g), L, "run")
    [] f.fn = "_merge_sort" ->
         (CASE f.pc = "start" ->
                IF f.lo < f.hi
                THEN LET mid == (f.lo + f.hi) \div 2
                     IN  Res(Push(WithTop(g, [f EXCEPT !.mid = mid, !.pc = "afterLeft"]),
                                  Frame("_merge_sort", f.lo, 0, mid)), L, "run")
                ELSE Res(Pop(g), L, "run")
           [] f.pc = "afterLeft" ->
                Res(Push(WithTop(g, [f EXCEPT !.pc = "afterRight"]),
                         Frame("_merge_sort", f.mid + 1, 0, f.hi)), L, "run")
           [] f.pc = "afterRight" ->
                Res(Push(WithTop(g, [f EXCEPT !.pc = "afterMerge"]),
                         Frame("_merge", f.lo, f.mid, f.hi)), L, "run")
           [] f.pc = "afterMerge" -> Res(Pop(g), L, "run"))
    [] f.fn = "_merge" ->
         (CASE f.pc = "start" ->
                Res(WithTop(g, [f EXCEPT !.left_copy = Slice(L, f.lo, f.mid + 1),
                                         !.right_copy = Slice(L, f.mid + 1, f.hi + 1),
                                         !.l = 0, !.r = 0, !.i = f.lo, !.pc = "loop"]), L, "run")
           [] f.pc = "loop" ->
                IF f.i < f.hi + 1
                THEN IF f.l < Len(f.left_copy)
                        /\ (f.r >= Len(f.right_copy) \/ Get(f.left_copy, f.l) <= Get(f.right_copy, f.r))
                     THEN Access(g, L, f.left_copy, {f.l},
                          Access(g, L, f.right_copy, IF f.r < Len(f.right_copy) THEN {f.r} ELSE {},
                          Access(g, L, L, {f.i},
                            Res(WithTop(g, [f EXCEPT !.l = f.l + 1, !.i = f.i + 1]),
                                Set(L, f.i, Get(f.left_copy, f.l)), "yield"))))
                     ELSE Access(g, L, f.left_copy,
                                 IF f.l < Len(f.left_copy) /\ f.r < Len(f.right_copy) THEN {f.l} ELSE {},
                          Access(g, L, f.right_copy, {f.r},
                          Access(g, L, L, {f.i},
                            Res(WithTop(g, [f EXCEPT !.r = f.r + 1, !.i = f.i + 1]),
                                Set(L, f.i, Get(f.right_copy, f.r)), "yield"))))
                ELSE Res(Pop(g), L, "run"))

\* the loop with `if data[j] < pivot`: values equal to the pivot stay right
RECURSIVE PartitionLoopStrict(_, _, _, _, _)
PartitionLoopStrict(L, pivot, i, j, high) ==
  IF j >= high THEN [L |-> L, i |-> i, ok |-> TRUE, neg |-> FALSE]
  ELSE IF ~InRange(L, j) THEN [L |-> L, i |-> i, ok |-> FALSE, neg |-> FALSE]
  ELSE IF Get(L, j) < pivot
       THEN IF ~InRange(L, i + 1) THEN [L |-> L, i |-> i, ok |-> FALSE, neg |-> FALSE]
            ELSE [PartitionLoopStrict(Swap(L, i + 1, j), pivot, i + 1, j + 1, high)
                    EXCEPT !.neg = @ \/ j < 0 \/ i + 1 < 0]
       ELSE [PartitionLoopStrict(L, pivot, i, j + 1, high) EXCEPT !.neg = @ \/ j < 0]

\* the for loop of _partition from j on; ok is FALSE once an index is out of
\* range, neg is TRUE when a subscript below 0 was evaluated
RECURSIVE PartitionLoop(_, _, _, _, _)
PartitionLoop(L, pivot, i, j, high) ==
  IF j >= high THEN [L |-> L, i |-> i, ok |-> TRUE, neg |-> FALSE]
  ELSE IF ~InRange(L, j) THEN [L |-> L, i |-> i, ok |-> FALSE, neg |-> FALSE]
  ELSE IF Get(L, j) <= pivot
       THEN IF ~InRange(L, i + 1) THEN [L |-> L, i |-> i, ok |-> FALSE, neg |-> FALSE]
            ELSE [PartitionLoop(Swap(L, i + 1, j), pivot, i + 1, j + 1, high)
                    EXCEPT !.neg = @ \/ j < 0 \/ i + 1 < 0]
       ELSE [PartitionLoop(L, pivot, i, j + 1, high) EXCEPT !.neg = @ \/ j < 0]

\* _partition(data, low, high): the list afterwards and the returned index
Partition(L, low, high) ==
  IF ~InRange(L, high) THEN [L |-> L, p |-> 0, ok |-> FALSE, neg |-> FALSE]
  ELSE LET lp == PartitionLoop(L, Get(L, high), low - 1, low, high)
       IN  IF ~lp.ok \/ ~InRange(lp.L, lp.i + 1) THEN [L |-> lp.L, p |-> 0, ok |-> FALSE, neg |-> FALSE]
           ELSE [L |-> Swap(lp.L, lp.i + 1, high), p |-> lp.i + 1, ok |-> TRUE,
                 neg |-> lp.neg \/ high < 0 \/ lp.i + 1 < 0]

\* QuickSort.sort and _quick_sort; the frame keeps pivot_index in `mid`
QuickStep(g, L) ==
  LET f == Top(g) IN
  CASE f.fn = "QuickSort.sort" ->
         IF f.pc = "start"
         THEN Res(Push(WithTop(g, [f EXCEPT !.pc = "after"]), Frame("_quick_sort", 0, 0, Len(L) - 1)), L, "run")
         ELSE Res(Pop(g), L, "run")
    [] f.fn = "_quick_sort" ->
         (CASE f.pc = "start" ->
                IF f.lo < f.hi
                THEN LET pr == Partition(L, f.lo, f.hi)
                     IN  IF ~pr.ok THEN Res(g, pr.L, "raise")
                         ELSE Res(WithTop([g EXCEPT !.wrapped = @ \/ pr.neg],
                                          [f EXCEPT !.mid = pr.p, !.pc = "afterYield"]), pr.L, "yield")
                ELSE Res(Pop(g), L, "run")
           [] f.pc = "afterYield" ->
                Res(Push(WithTop(g, [f EXCEPT !.pc = "afterLeft"]),
                         Frame("_quick_sort", f.lo, 0, f.mid - 1)), L, "run")
           [] f.pc = "afterLeft" ->
                Res(Push(WithTop(g, [f EXCEPT !.pc = "afterRight"]),
                         Frame("_quick_sort", f.mid + 1, 0, f.hi)), L, "run")
           [] f.pc = "afterRight" -> Res(Pop(g), L, "run"))

\* the calls _quick_sort(data, low, high) makes, without the yields: the
\* list afterwards and the number of _partition calls
RECURSIVE QuickCalls(_, _, _)
QuickCalls(L, low, high) ==
  IF low < high
  THEN LET pr == Partition(L, low, high)
           a == QuickCalls(pr.L, low, pr.p - 1)
           b == QuickCalls(a.L, pr.p + 1, high)
       IN  [L |-> b.L, n |-> 1 + a.n + b.n]
  ELSE [L |-> L, n |-> 0]

\* the writes of _merge_sort(data, left, right): right-left+1 for its own
\* _merge after those of its two recursive calls, none when left >= right
RECURSIVE MergeWrites(_, _)
MergeWrites(left, right) ==
  IF left < right
  THEN LET mid == (left + right) \div 2
       IN  MergeWrites(left, mid) + MergeWrites(mid + 1, right) + (right - left + 1)
  ELSE 0

GenStep(g, L) ==
  CASE g.alg = "Bubble Sort"    -> BubbleStep(g, L)
    [] g.alg = "Insertion Sort" -> InsertionStep(g, L)
    [] g.alg = "Merge Sort"     -> MergeStep(g, L)
    [] g.alg = "Quick Sort"     -> QuickStep(g, L)
    [] g.alg = "Selection Sort" -> SelectionStep(g, L)

\* next(generator): run the body from where it stopped to the next yield
\* ("yield"), to its end ("stop", StopIteration) or to an exception ("raise").
\* ResumeFrom takes the step just made as a value, so that each step of the
\* body is evaluated once.
RECURSIVE Resume(_, _)
ResumeFrom(s) ==
  CASE s.ev = "yield" -> Res([s.g EXCEPT !.st = "suspended"], s.L, "yield")
    [] s.ev = "raise" -> Res([s.g EXCEPT !.st = "done", !.stack = <<>>], s.L, "raise")
    [] s.ev = "run"   -> Resume(s.g, s.L)
Resume(g, L) ==
  IF g.stack = <<>> THEN Res([g EXCEPT !.st = "done"], L, "stop")
  ELSE CHOOSE res \in {ResumeFrom(s) : s \in {GenStep(g, L)}} : TRUE

\* list(strategy.sort(D)) on a list of its own: the values at each yield,
\* and the list at the end
RECURSIVE Drain(_, _, _)
Drain(g, L, acc) ==
  LET s == Resume(g, L)
  IN  IF s.ev = "yield" THEN Drain(s.g, s.L, Append(acc, s.L))
      ELSE [snaps |-> acc, L |-> s.L, ev |-> s.ev]

RunAlone(algo, D) == Drain(NewGen(algo, NoList), D, <<>>)

(* ------------------------------- state -------------------------------- *)
VARIABLES
  heap,           \* the live list objects: id -> values
  dataset,        \* AlgorithmAnalyzer.data (the caller's list): a list id
  current_color,  \* AlgorithmAnalyzer.current_color
  strategy,       \* AlgorithmContext.strategy of each context object
  context,        \* the context object each run calls execute on (0: none)
  pc,             \* position of each run in run_sort
  arg,            \* the list each run passed to execute
  gen,            \* the generator execute returned to each run
  cur,            \* the loop variable `data` of each run: the last list yielded
  kept,           \* the yielded lists a direct caller of execute retains
  reported,       \* whether the decorator printed "Execution time" for the run
  emitted,        \* history: the values of the yielded list at each yield
  rendered,       \* history: the values draw_data received, in call order
  startData,      \* history: the values of the list passed to execute, at the call
  startVariant    \* history: the context's strategy when execute was called

vars == <<heap, dataset, current_color, strategy, context, pc, arg, gen, cur, kept,
          reported, emitted, rendered, startData, startVariant>>

(* --------------------------- the heap of lists ------------------------- *)
\* The id of a new list object is arbitrary as long as no live list has it:
\* it is the id the allocating place prefers when that is free, and the
\* smallest free id otherwise.
NewId(h, want) ==
  IF want \notin DOMAIN h THEN want
  ELSE CHOOSE i \in 1..(Cardinality(DOMAIN h) + 1) : i \notin DOMAIN h
Alloc(h, id, L) == [i \in DOMAIN h \cup {id} |-> IF i = id THEN L ELSE h[i]]
Store(h, ref, L) == [h EXCEPT ![ref] = L]
\* reference counting: a list nothing refers to any more is freed
Collect(h, roots) == [i \in DOMAIN h \cap roots |-> h[i]]
Roots(d, a, g, c, k) ==
  {d} \cup {a[r] : r \in Runs} \cup {c[r] : r \in Runs}
      \cup {g[r].data : r \in {x \in Runs : g[x].st \in {"created", "suspended"}}}
      \cup UNION {{k[r][i] : i \in 1..Len(k[r])} : r \in Runs}

(* ------------------------ decorator and context ------------------------ *)
Color(algo) ==
  CASE algo = "Bubble Sort"    -> "red"
    [] algo = "Insertion Sort" -> "green"
    [] algo = "Merge Sort"     -> "orange"
    [] algo = "Quick Sort"     -> "purple"
    [] algo = "Selection Sort" -> "cyan"

\* wrapper(*args): calls func, which only builds the generator, prints the
\* elapsed time of that call and returns the generator
timing_decorator(algo, ref) == [result |-> NewGen(algo, ref), printed |-> TRUE]

\* AlgorithmContext.execute(data): the strategy's decorated sort on `data`
execute(strat, ref) == timing_decorator(strat, ref)

\* a set_strategy that also re-creates the executions in flight on the new variant
SetStrategyRebinds(g, s) == IF g.st \in {"created", "suspended"} THEN NewGen(s, g.data) ELSE g
\* AlgorithmContext.set_strategy assigns self.strategy and nothing else: the
\* generators execute returned earlier stay as they are
set_strategy(g, s) == g

\* run_sort passing self.data itself
RunSortArgNoCopy(h, d, want) == [heap |-> h, ref |-> d]
\* the argument run_sort passes to execute: self.data.copy()
RunSortArg(h, d, want) == [heap |-> Alloc(h, NewId(h, want), h[d]), ref |-> NewId(h, want)]

\* a loop that sleeps without drawing the snapshot it got
ForLoopSkipsDraw(ev) == IF ev = "yield" THEN "sleep" ELSE IF ev = "stop" THEN "done" ELSE "failed"
\* a driver that starts over when the sequence is exhausted
ForLoopRestarts(ev) == IF ev = "yield" THEN "draw" ELSE IF ev = "stop" THEN "execute" ELSE "failed"
\* where the for loop of run_sort goes after asking for the next item: into
\* its body, or out of the loop (run_sort returns, or dies of the exception)
ForLoop(ev) == IF ev = "yield" THEN "draw" ELSE IF ev = "stop" THEN "done" ELSE "failed"

(* ------------------------------- Init ---------------------------------- *)
Common ==
  /\ current_color = "blue"
  /\ context = [r \in Runs |-> 0]
  /\ pc = [r \in Runs |-> "idle"]
  /\ arg = [r \in Runs |-> NoList]
  /\ gen = [r \in Runs |-> NoGen]
  /\ cur = [r \in Runs |-> NoList]
  /\ kept = [r \in Runs |-> <<>>]
  /\ reported = [r \in Runs |-> FALSE]
  /\ emitted = [r \in Runs |-> <<>>]
  /\ rendered = [r \in Runs |-> <<>>]
  /\ startData = [r \in Runs |-> <<>>]
  /\ startVariant = [r \in Runs |-> "none"]

\* AlgorithmAnalyzer.__init__: self.data = []
Init ==
  /\ Common
  /\ heap = [i \in {1} |-> <<>>]
  /\ dataset = 1
  /\ strategy = [r \in Runs |-> "none"]

(* --------------------------- the GUI program --------------------------- *)
\* the Generate Data button: self.data becomes a new list, and the old one
\* is freed unless something else still refers to it
generate_data ==
  /\ \E D \in [1..DataLen -> Values] :
       LET h == Collect(heap, Roots(NoList, arg, gen, cur, kept))
       IN  /\ dataset' = NewId(h, 1)
           /\ heap' = Alloc(h, NewId(h, 1), D)
  /\ UNCHANGED <<current_color, strategy, context, pc, arg, gen, cur,
                 kept, reported, emitted, rendered, startData, startVariant>>

\* the Start button, with the Combobox showing `algo`; both error branches
\* only show a dialog.  The new thread is the lowest run not yet used.
start_sort ==
  \E algo \in MenuTexts :
    IF heap[dataset] = <<>> \/ algo \notin Algos
    THEN UNCHANGED vars
    ELSE /\ \E r \in Runs :
              /\ pc[r] = "idle"
              /\ \A q \in Runs : q < r => pc[q] # "idle"
              /\ strategy' = [strategy EXCEPT ![r] = algo]
              /\ context' = [context EXCEPT ![r] = r]
              /\ pc' = [pc EXCEPT ![r] = "execute"]
         /\ current_color' = Color(algo)
         /\ UNCHANGED <<heap, dataset, arg, gen, cur, kept, reported,
                        emitted, rendered, startData, startVariant>>

\* run_sort, line 194: generator = context.execute(self.data.copy())
RunExecute(r) ==
  /\ pc[r] = "execute"
  /\ \E a \in {RunSortArg(heap, dataset, r + 1)} :
       \E e \in {execute(strategy[context[r]], a.ref)} :
         /\ heap' = a.heap
         /\ arg' = [arg EXCEPT ![r] = a.ref]
         /\ gen' = [gen EXCEPT ![r] = e.result]
         /\ reported' = [reported EXCEPT ![r] = e.printed]
         /\ startData' = [startData EXCEPT ![r] = a.heap[a.ref]]
         /\ startVariant' = [startVariant EXCEPT ![r] = strategy[context[r]]]
  /\ pc' = [pc EXCEPT ![r] = "next"]
  /\ UNCHANGED <<dataset, current_color, strategy, context, cur, kept,
                 emitted, rendered>>

\* run_sort, line 195: the for statement asks the generator for its next
\* item; at StopIteration (or an exception) run_sort ends and its locals die
RunNext(r) ==
  /\ pc[r] = "next"
  /\ \E s \in {Resume(gen[r], heap[gen[r].data])} :
       \E gen1 \in {[gen EXCEPT ![r] = s.g]},
          cur1 \in {[cur EXCEPT ![r] = IF s.ev = "yield" THEN gen[r].data ELSE NoList]},
          arg1 \in {[arg EXCEPT ![r] = IF s.ev = "yield" THEN arg[r] ELSE NoList]} :
         /\ gen' = gen1
         /\ cur' = cur1
         /\ arg' = arg1
         /\ pc' = [pc EXCEPT ![r] = ForLoop(s.ev)]
         /\ emitted' = [emitted EXCEPT ![r] = IF s.ev = "yield" THEN Append(@, s.L) ELSE @]
         /\ heap' = Collect(Store(heap, gen[r].data, s.L), Roots(dataset, arg1, gen1, cur1, kept))
  /\ UNCHANGED <<dataset, current_color, strategy, context, kept, reported,
                 rendered, startData, startVariant>>

\* run_sort, line 196: self.draw_data(data)
RunDraw(r) ==
  /\ pc[r] = "draw"
  /\ rendered' = [rendered EXCEPT ![r] = Append(@, heap[cur[r]])]
  /\ pc' = [pc EXCEPT ![r] = "sleep"]
  /\ UNCHANGED <<heap, dataset, current_color, strategy, context, arg, gen, cur,
                 kept, reported, emitted, startData, startVariant>>

\* run_sort, line 197: time.sleep(0.1), then back to the for statement
RunSleep(r) ==
  /\ pc[r] = "sleep"
  /\ pc' = [pc EXCEPT ![r] = "next"]
  /\ UNCHANGED <<heap, dataset, current_color, strategy, context, arg, gen,
                 cur, kept, reported, emitted, rendered, startData, startVariant>>

RunStep(r) == RunExecute(r) \/ RunNext(r) \/ RunDraw(r) \/ RunSleep(r)

Next ==
  \/ generate_data
  \/ start_sort
  \/ \E r \in Runs : RunExecute(r)
  \/ \E r \in Runs : RunNext(r)
  \/ \E r \in Runs : RunDraw(r)
  \/ \E r \in Runs : RunSleep(r)

Spec == Init /\ [][Next]_vars

\* threads are scheduled fairly: a run that can take a step takes one
FairSpec == Spec /\ \A r \in Runs : WF_vars(RunStep(r))

(* ------------------- a direct caller of the context -------------------- *)
\* A caller that holds one AlgorithmContext (context 1), builds a list,
\* calls execute on it, keeps every list the generator yields, and may call
\* set_strategy at any moment.
ApiInit ==
  /\ Common
  /\ heap = [i \in {1} |-> <<>>]
  /\ dataset = 1
  /\ \E s \in Algos : strategy = [r \in Runs |-> IF r = 1 THEN s ELSE "none"]

ApiSetStrategy ==
  /\ \E s \in Algos \ {strategy[1]} : strategy' = [strategy EXCEPT ![1] = s]
  /\ gen' = [r \in Runs |-> set_strategy(gen[r], strategy'[1])]
  /\ UNCHANGED <<heap, dataset, current_color, context, pc, arg, cur, kept, reported,
                 emitted, rendered, startData, startVariant>>

\* data = [...]; generator = context.execute(data)
ApiExecute ==
  /\ pc[1] = "idle"
  /\ \E D \in ApiLists :
       LET e == execute(strategy[1], NewId(heap, 2))
       IN  /\ heap' = Alloc(heap, NewId(heap, 2), D)
           /\ arg' = [arg EXCEPT ![1] = NewId(heap, 2)]
           /\ gen' = [gen EXCEPT ![1] = e.result]
           /\ reported' = [reported EXCEPT ![1] = e.printed]
           /\ startData' = [startData EXCEPT ![1] = D]
  /\ startVariant' = [startVariant EXCEPT ![1] = strategy[1]]
  /\ context' = [context EXCEPT ![1] = 1]
  /\ pc' = [pc EXCEPT ![1] = "next"]
  /\ UNCHANGED <<dataset, current_color, strategy, cur, kept, emitted, rendered>>

\* snapshot = next(generator); kept.append(snapshot)
ApiNext ==
  /\ pc[1] = "next"
  /\ \E s \in {Resume(gen[1], heap[gen[1].data])} :
         /\ gen' = [gen EXCEPT ![1] = s.g]
         /\ heap' = Store(heap, gen[1].data, s.L)
         /\ cur' = [cur EXCEPT ![1] = IF s.ev = "yield" THEN gen[1].data ELSE @]
         /\ kept' = [kept EXCEPT ![1] = IF s.ev = "yield" THEN Append(@, gen[1].data) ELSE @]
         /\ emitted' = [emitted EXCEPT ![1] = IF s.ev = "yield" THEN Append(@, s.L) ELSE @]
         /\ pc' = [pc EXCEPT ![1] = IF s.ev = "yield" THEN "next"
                                    ELSE IF s.ev = "stop" THEN "done" ELSE "failed"]
  /\ UNCHANGED <<dataset, current_color, strategy, context, arg, reported,
                 rendered, startData, startVariant>>

ApiNext_ == ApiSetStrategy \/ ApiExecute \/ ApiNext

ApiSpec == ApiInit /\ [][ApiNext_]_vars

(* ============================== properties ============================= *)
Sorted(L) == \A i \in 1..(Len(L) - 1) : L[i] <= L[i + 1]
Count(L, v) == Cardinality({i \in 1..Len(L) : L[i] = v})
Permutation(L, D) ==
  /\ Len(L) = Len(D)
  /\ \A i \in 1..Len(D) : Count(L, D[i]) = Count(D, D[i])
IsPrefix(a, b) == Len(a) <= Len(b) /\ a = SubSeq(b, 1, Len(a))
Last(L) == L[Len(L)]
\* the positions of run_sort between its start and its end
Running == {"execute", "next", "draw", "sleep"}

\* C1: once the sequence execute(D) returned is drained, the last snapshot
\* (its values when it was yielded, and the list it refers to) is D sorted
\* ascending and a permutation of D; when no snapshot was produced the
\* working list is D sorted ascending.  No variant ends in an exception.
C1_LastSnapshotSorted ==
  /\ pc[1] # "failed"
  /\ pc[1] = "done" =>
       /\ Sorted(heap[arg[1]]) /\ Permutation(heap[arg[1]], startData[1])
       /\ emitted[1] # <<>> =>
            /\ Sorted(Last(emitted[1])) /\ Permutation(Last(emitted[1]), startData[1])
            /\ heap[Last(kept[1])] = Last(emitted[1])
       /\ emitted[1] = <<>> => heap[arg[1]] = startData[1]

\* a drained quick sort of three distinct values given in descending order
C1_Witness ==
  /\ pc[1] = "done"
  /\ startVariant[1] = "Quick Sort"
  /\ startData[1] = <<3, 2, 1>>
  /\ Last(emitted[1]) = <<1, 2, 3>>

C3_SnapshotsKeepValues ==
  \A k \in 1..Len(kept[1]) : heap[kept[1][k]] = emitted[1][k]

\* C4: the "Execution time" report of a run is printed only once the
\* generator of that run is exhausted.
C4_ReportAfterDrain ==
  reported[1] => gen[1].st = "done"

\* C5: draw_data is called once per snapshot, in emission order: between
\* iterations the rendered values are exactly the emitted ones, inside an
\* iteration the snapshot just pulled is the only one not yet rendered, and
\* a snapshot is pulled only by a run at its for statement, which it reaches
\* only from the call of execute or from the end of the sleep.
C5_RenderEachInOrder ==
  /\ [](\A r \in Runs :
          /\ pc[r] \in {"next", "sleep", "done"} => rendered[r] = emitted[r]
          /\ pc[r] = "draw" => emitted[r] = Append(rendered[r], heap[cur[r]]))
  /\ [][\A r \in Runs :
          /\ emitted'[r] # emitted[r] => pc[r] = "next" /\ rendered[r] = emitted[r]
          /\ rendered'[r] # rendered[r] => pc[r] = "draw" /\ pc'[r] = "sleep"
          /\ (pc'[r] = "next" /\ pc[r] # "next") => pc[r] \in {"execute", "sleep"}]_vars

\* a finished run that rendered two different snapshots
C5_Witness ==
  \E r \in Runs :
    /\ pc[r] = "done"
    /\ Len(rendered[r]) = 2
    /\ rendered[r][1] # rendered[r][2]

\* C6: a running playback that has rendered a snapshot and has more to come
\* can be cancelled before the next one is consumed: the program has a step
\* that ends the run without another snapshot being pulled or rendered.
C6_CancelTakesEffect ==
  \A r \in Runs :
    (/\ pc[r] \in {"sleep", "next"}
     /\ rendered[r] # <<>>
     /\ Resume(gen[r], heap[gen[r].data]).ev = "yield")
      => ENABLED (Next /\ pc'[r] \notin Running /\ emitted'[r] = emitted[r]
                       /\ rendered'[r] = rendered[r])

\* C7: never more than one run between the start and the end of run_sort.
C7_AtMostOneRunning ==
  Cardinality({r \in Runs : pc[r] \in Running}) <= 1

C9_VariantFixedAtExecute ==
  gen[1].st # "none" =>
    /\ gen[1].alg = startVariant[1]
    /\ IsPrefix(emitted[1], RunAlone(startVariant[1], startData[1]).snaps)
    /\ pc[1] = "done" => emitted[1] = RunAlone(startVariant[1], startData[1]).snaps

\* the strategy was replaced while the generator is suspended between two
\* snapshots, and the new variant would go on differently from here
C9_Witness ==
  /\ pc[1] = "next"
  /\ gen[1].st = "suspended"
  /\ strategy[1] # startVariant[1]
  /\ Len(emitted[1]) >= 1
  /\ Len(RunAlone(startVariant[1], startData[1]).snaps) > Len(emitted[1])
  /\ ~IsPrefix(emitted[1], RunAlone(strategy[1], startData[1]).snaps)

\* C10: every run that was started ends with its sequence exhausted, and a
\* run that has ended stays ended.
C10_RunsEnd ==
  /\ \A r \in Runs : (pc[r] = "execute") ~> (pc[r] = "done")
  /\ [][\A r \in Runs : pc[r] = "done" => pc'[r] = "done"]_vars

\* a run that produced snapshots and has ended
C10_Witness ==
  \E r \in Runs : pc[r] = "done" /\ Len(emitted[r]) >= 2 /\ gen[r].st = "done"

\* C11: on the empty list every variant ends without an exception and with
\* no snapshot; on a one-element list every variant ends without an
\* exception and with at most one snapshot, equal to the input.
C11_EmptyAndSingle ==
  Len(startData[1]) <= 1 /\ pc[1] # "idle" =>
    /\ pc[1] # "failed"
    /\ Len(emitted[1]) <= Len(startData[1])
    /\ \A k \in 1..Len(emitted[1]) : emitted[1][k] = startData[1]
    /\ heap[arg[1]] = startData[1]

\* selection sort drained on a one-element list: the one variant that
\* yields there
C11_Witness ==
  /\ pc[1] = "done"
  /\ startVariant[1] = "Selection Sort"
  /\ Len(startData[1]) = 1
  /\ emitted[1] = <<startData[1]>>

\* the pairs of positions of D that are out of order
Inversions(D) ==
  Cardinality({p \in (1..Len(D)) \X (1..Len(D)) : p[1] < p[2] /\ D[p[1]] > D[p[2]]})
\* the list before the k-th snapshot of the direct caller's run
Before(k) == IF k = 1 THEN startData[1] ELSE emitted[1][k - 1]
\* b is a with one adjacent pair, out of order in a, exchanged
AdjacentSwapOf(a, b) ==
  \E j \in 1..(Len(a) - 1) :
     a[j] > a[j + 1] /\ b = [a EXCEPT ![j] = a[j + 1], ![j + 1] = a[j]]

\* C12: each bubble sort snapshot is the previous one with exactly one
\* adjacent out-of-order pair exchanged (one snapshot per swap, none for a
\* comparison that does not swap); a drained run has emitted as many
\* snapshots as D has inversions; a sorted D gives no snapshot and is left
\* as it was.
C12_BubbleSnapshotPerSwap ==
  startVariant[1] = "Bubble Sort" /\ pc[1] # "idle" =>
    /\ \A k \in 1..Len(emitted[1]) : AdjacentSwapOf(Before(k), emitted[1][k])
    /\ pc[1] = "done" => Len(emitted[1]) = Inversions(startData[1])
    /\ pc[1] = "done" /\ Sorted(startData[1]) =>
          emitted[1] = <<>> /\ heap[arg[1]] = startData[1]
    /\ pc[1] # "failed"

\* bubble sort drained on a list with several inversions, every swap seen
C12_Witness ==
  /\ pc[1] = "done"
  /\ startVariant[1] = "Bubble Sort"
  /\ Inversions(startData[1]) >= 2
  /\ Len(emitted[1]) = Inversions(startData[1])

\* the first k positions of S hold its k smallest values, ascending
SmallestFirst(S, k) ==
  /\ Sorted(SubSeq(S, 1, k))
  /\ \A a \in 1..k : \A b \in (k + 1)..Len(S) : S[a] <= S[b]

\* C13: selection sort on a list of length n emits exactly n snapshots, one
\* per outer iteration even when the swap changes nothing; the k-th
\* snapshot is a permutation of D whose positions 0..k-1 hold the k
\* smallest values of D in ascending order; on [5,3,4,1,2] there are 5
\* snapshots and the last is [1,2,3,4,5].
C13_SelectionOnePerPass ==
  startVariant[1] = "Selection Sort" /\ pc[1] # "idle" =>
    /\ pc[1] # "failed"
    /\ Len(emitted[1]) <= Len(startData[1])
    /\ pc[1] = "done" => Len(emitted[1]) = Len(startData[1])
    /\ \A k \in 1..Len(emitted[1]) :
          Permutation(emitted[1][k], startData[1]) /\ SmallestFirst(emitted[1][k], k)
    /\ pc[1] = "done" /\ startData[1] = <<5, 3, 4, 1, 2>> =>
          Len(emitted[1]) = 5 /\ Last(emitted[1]) = <<1, 2, 3, 4, 5>>

\* selection sort drained on [5,3,4,1,2]: five snapshots, one of them (the
\* last pass, which swaps position 4 with itself) equal to its predecessor
C13_Witness ==
  /\ pc[1] = "done"
  /\ startVariant[1] = "Selection Sort"
  /\ startData[1] = <<5, 3, 4, 1, 2>>
  /\ Len(emitted[1]) = 5
  /\ \E k \in 2..5 : emitted[1][k] = emitted[1][k - 1]

\* the direct caller's quick sort run is suspended at a yield
QuickSuspended ==
  pc[1] = "next" /\ startVariant[1] = "Quick Sort" /\ gen[1].st = "suspended"

\* C14: quick sort yields once per _partition call, with the partition
\* complete and neither sub-range entered: the snapshot is the previous
\* list with _partition applied to low..high, the pivot (the old
\* data[high]) sits at the returned index p, data[low..p-1] <= pivot <
\* data[p+1..high], and the rest of the list is as before; a drained run
\* has as many snapshots as _partition calls; [2,1] gives the one
\* snapshot [1,2].
C14_QuickSnapshotPerPartition ==
  /\ QuickSuspended =>
       LET f == Top(gen[1])
           L == Last(emitted[1])
           prev == Before(Len(emitted[1]))
       IN  /\ f.fn = "_quick_sort" /\ f.pc = "afterYield"
           /\ 0 <= f.lo /\ f.lo <= f.mid /\ f.mid <= f.hi /\ f.lo < f.hi /\ f.hi < Len(L)
           /\ L = Partition(prev, f.lo, f.hi).L
           /\ f.mid = Partition(prev, f.lo, f.hi).p
           /\ L[f.mid + 1] = prev[f.hi + 1]
           /\ \A k \in f.lo..(f.mid - 1) : L[k + 1] <= L[f.mid + 1]
           /\ \A k \in (f.mid + 1)..f.hi : L[k + 1] > L[f.mid + 1]
           /\ \A k \in 0..(Len(L) - 1) : k < f.lo \/ k > f.hi => L[k + 1] = prev[k + 1]
  /\ startVariant[1] = "Quick Sort" /\ pc[1] = "done" =>
       /\ Len(emitted[1]) = QuickCalls(startData[1], 0, Len(startData[1]) - 1).n
       /\ startData[1] = <<2, 1>> => emitted[1] = << <<1, 2>> >>
  /\ startVariant[1] = "Quick Sort" => pc[1] # "failed"

\* a partition that left values on both sides of the pivot has just been
\* yielded
C14_Witness ==
  /\ QuickSuspended
  /\ Top(gen[1]).lo < Top(gen[1]).mid
  /\ Top(gen[1]).mid < Top(gen[1]).hi
  /\ Len(emitted[1]) >= 1

\* the direct caller's insertion sort run, on a list sorted ascending
SortedInsertion ==
  startVariant[1] = "Insertion Sort" /\ pc[1] # "idle" /\ Sorted(startData[1])

\* C15 as stated: insertion sort on a sorted list emits one snapshot per
\* element of the list (n of them), each equal to the input.
C15_OnePerElement ==
  SortedInsertion /\ pc[1] = "done" =>
    /\ Len(emitted[1]) = Len(startData[1])
    /\ \A k \in 1..Len(emitted[1]) : emitted[1][k] = startData[1]

\* C15: insertion sort on a list of length n sorted ascending shifts
\* nothing and emits one snapshot per element from the second onward
\* (n-1 for n >= 1, none for n = 0), each from the placement step and each
\* equal to the input.
C15_OnePerElementAfterFirst ==
  SortedInsertion =>
    /\ pc[1] # "failed"
    /\ \A k \in 1..Len(emitted[1]) : emitted[1][k] = startData[1]
    /\ gen[1].st = "suspended" =>
          Top(gen[1]).pc = "outer" /\ Top(gen[1]).i = Len(emitted[1]) + 1
    /\ pc[1] = "done" =>
          Len(emitted[1]) = IF Len(startData[1]) = 0 THEN 0 ELSE Len(startData[1]) - 1

\* insertion sort drained on a sorted list of three or more elements, two
\* of them equal
C15_Witness ==
  /\ SortedInsertion /\ pc[1] = "done"
  /\ Len(startData[1]) >= 3
  /\ \E k \in 1..(Len(startData[1]) - 1) : startData[1][k] = startData[1][k + 1]
  /\ Len(emitted[1]) = Len(startData[1]) - 1

\* C16: every snapshot of every variant, and the working list at every
\* moment of the run, has the length of the list the run was given.
C16_LengthKept ==
  pc[1] # "idle" =>
    /\ \A k \in 1..Len(emitted[1]) : Len(emitted[1][k]) = Len(startData[1])
    /\ Len(heap[arg[1]]) = Len(startData[1])

\* a variant that assigns single elements (merge or insertion sort) has
\* emitted several snapshots of an unsorted list, the last unlike the input
C16_Witness ==
  /\ pc[1] \in {"next", "done"}
  /\ startVariant[1] \in {"Merge Sort", "Insertion Sort"}
  /\ Len(emitted[1]) >= 3
  /\ Last(emitted[1]) # startData[1]
  /\ Len(Last(emitted[1])) = Len(startData[1])

\* the snapshot just yielded by insertion sort comes from the placement of
\* the key of position i (0-based): data[0..i] is sorted and a permutation
\* of D[0..i], the rest is still D's, and the positions 1..i have given
\* one snapshot each plus one per shift
PlacementSnapshot(L, D, i) ==
  /\ 1 <= i /\ i <= Len(D) - 1
  /\ Sorted(SubSeq(L, 1, i + 1))
  /\ Permutation(SubSeq(L, 1, i + 1), SubSeq(D, 1, i + 1))
  /\ SubSeq(L, i + 2, Len(L)) = SubSeq(D, i + 2, Len(D))
  /\ Len(emitted[1]) = i + Inversions(SubSeq(D, 1, i + 1))
\* it comes from a shift for position i that left the loop index at j:
\* data[j+1] moved to data[j+2], it is larger than the key, and i-1-j
\* shifts have been made for this position
ShiftSnapshot(L, prev, D, f) ==
  /\ 1 <= f.i /\ f.i <= Len(D) - 1 /\ -1 <= f.j /\ f.j < f.i - 1
  /\ f.key = D[f.i + 1]
  /\ prev[f.j + 2] > f.key
  /\ L = [prev EXCEPT ![f.j + 3] = prev[f.j + 2]]
  /\ Len(emitted[1]) = (f.i - 1) + Inversions(SubSeq(D, 1, f.i)) + (f.i - 1 - f.j)

\* C17: insertion sort handles the positions 1..n-1 in order, yielding
\* once after each rightward shift of a predecessor larger than the key and
\* once after placing the key; a drained run on n >= 1 elements has
\* emitted (n-1) + Inversions(D) snapshots, and in the placement snapshot
\* of position i the prefix data[0..i] is sorted and a permutation of
\* D[0..i].
C17_InsertionShiftsAndPlacements ==
  startVariant[1] = "Insertion Sort" /\ pc[1] # "idle" =>
    /\ pc[1] # "failed"
    /\ gen[1].st = "suspended" =>
          LET f == Top(gen[1])
          IN  IF f.pc = "outer"
              THEN PlacementSnapshot(Last(emitted[1]), startData[1], f.i - 1)
              ELSE f.pc = "while" /\
                   ShiftSnapshot(Last(emitted[1]), Before(Len(emitted[1])), startData[1], f)
    /\ pc[1] = "done" /\ Len(startData[1]) >= 1 =>
          Len(emitted[1]) = (Len(startData[1]) - 1) + Inversions(startData[1])

\* a key has just been placed after two or more shifts
C17_Witness ==
  /\ startVariant[1] = "Insertion Sort" /\ pc[1] = "next"
  /\ gen[1].st = "suspended"
  /\ Top(gen[1]).pc = "outer"
  /\ Top(gen[1]).j <= Top(gen[1]).i - 4
  /\ PlacementSnapshot(Last(emitted[1]), startData[1], Top(gen[1]).i - 1)

\* the direct caller's merge sort run is suspended at a yield
MergeSuspended ==
  pc[1] = "next" /\ startVariant[1] = "Merge Sort" /\ gen[1].st = "suspended"
\* the list as it was before the last w snapshots
BeforeLast(w) ==
  IF Len(emitted[1]) = w THEN startData[1] ELSE emitted[1][Len(emitted[1]) - w]
\* b is a except, possibly, at the 0-based position k
SameExceptAt(a, b, k) ==
  Len(a) = Len(b) /\ \A q \in 1..Len(a) : q # k + 1 => a[q] = b[q]

\* C18: at every yield of merge sort the running _merge over [left,right]
\* has written w = i-left elements (1 <= w <= right-left+1) and yielded
\* once after each: its q-th snapshot differs from the one before at
\* position left+q-1 only; the range held left_copy ++ right_copy when the
\* merge started and nothing outside the range has changed since; after
\* the last write data[left..right] is sorted and a permutation of what
\* the range held; a drained run has one snapshot per element written and
\* none for the recursive calls.
C18_MergeStepSnapshots ==
  /\ MergeSuspended =>
       LET f == Top(gen[1])
           L == Last(emitted[1])
           n == Len(startData[1])
           w == f.i - f.lo
           M == BeforeLast(w)
       IN  /\ f.fn = "_merge" /\ f.pc = "loop"
           /\ 0 <= f.lo /\ f.lo <= f.mid /\ f.mid < f.hi /\ f.hi < n
           /\ 1 <= w /\ w <= f.hi - f.lo + 1 /\ w <= Len(emitted[1])
           /\ w = f.l + f.r
           /\ SubSeq(M, f.lo + 1, f.hi + 1) = f.left_copy \o f.right_copy
           /\ \A q \in 1..w :
                 SameExceptAt(Before(Len(emitted[1]) - w + q),
                              emitted[1][Len(emitted[1]) - w + q], f.lo + q - 1)
           /\ \A k \in 1..n : k < f.lo + 1 \/ k > f.hi + 1 => L[k] = M[k]
           /\ w = f.hi - f.lo + 1 =>
                 /\ Sorted(SubSeq(L, f.lo + 1, f.hi + 1))
                 /\ Permutation(SubSeq(L, f.lo + 1, f.hi + 1), SubSeq(M, f.lo + 1, f.hi + 1))
  /\ startVariant[1] = "Merge Sort" /\ pc[1] = "done" =>
       Len(emitted[1]) = MergeWrites(0, Len(startData[1]) - 1)
  /\ startVariant[1] = "Merge Sort" => pc[1] # "failed"

\* the last write of a merge over three or more positions, inside a longer
\* list, that took values from both halves and changed the range
C18_Witness ==
  /\ MergeSuspended
  /\ Top(gen[1]).i = Top(gen[1]).hi + 1
  /\ Top(gen[1]).hi - Top(gen[1]).lo >= 2
  /\ Top(gen[1]).hi - Top(gen[1]).lo + 1 < Len(startData[1])
  /\ Top(gen[1]).l >= 1 /\ Top(gen[1]).r >= 1
  /\ Last(emitted[1]) # BeforeLast(Top(gen[1]).i - Top(gen[1]).lo)

\* C19: no variant, on any list, evaluates a subscript outside 0..len-1 of
\* the list or of _merge's copies: none raises IndexError and none uses an
\* index below 0, which Python would take from the end of the list.
C19_IndicesInRange ==
  pc[1] # "idle" => pc[1] # "failed" /\ ~gen[1].wrapped

\* insertion sort has just written data[j+1] with j = -1, after shifting
\* every predecessor of the key
C19_Witness ==
  /\ startVariant[1] = "Insertion Sort" /\ pc[1] = "next"
  /\ gen[1].st = "suspended"
  /\ Top(gen[1]).pc = "outer"
  /\ Top(gen[1]).j = -1
  /\ Top(gen[1]).i >= 3
  /\ ~gen[1].wrapped

\* the variants that change the list by exchanging two elements only
SwapOnly == {"Bubble Sort", "Selection Sort", "Quick Sort"}

\* C20: every snapshot of bubble, selection and quick sort, the
\* intermediate ones included, is a permutation of the input: no value is
\* dropped or duplicated at any yield.
C20_SwapVariantsPermute ==
  startVariant[1] \in SwapOnly /\ pc[1] # "idle" =>
    /\ \A k \in 1..Len(emitted[1]) : Permutation(emitted[1][k], startData[1])
    /\ Permutation(heap[arg[1]], startData[1])

\* one of the three has yielded an intermediate snapshot: changed, not yet
\* sorted, with more to come, and a permutation of the input
C20_Witness ==
  /\ startVariant[1] \in SwapOnly /\ pc[1] = "done"
  /\ \E k \in 1..(Len(emitted[1]) - 1) :
        /\ emitted[1][k] # startData[1]
        /\ ~Sorted(emitted[1][k])
        /\ emitted[1][k] # emitted[1][k + 1]
        /\ Permutation(emitted[1][k], startData[1])
====
